---- MODULE Spec2Model ----
(***************************************************************************)
(* tarantool.lts.space.Space: an object-oriented wrapper that binds a      *)
(* space number, resolved through the connection's schema, and forwards    *)
(* replace / store / insert / delete / update / select / call to the       *)
(* connection.                                                             *)
(*                                                                         *)
(* The state is the Space object (handle), the connection's configuration  *)
(* (schema, return_tuple, connected), the records the server holds, and a  *)
(* log of the last invocation: what the caller passed (req), the calls     *)
(* that reached the connection (sent), what the connection answered        *)
(* (conn_out) and what the caller got back (outcome).  A change made to    *)
(* the connection by the rest of the program is logged as an invocation    *)
(* too, so the log always describes the step that led to the state.        *)
(* The connection and tarantool.lts.const are collaborators of Space: they *)
(* are modelled by what Space relies on.                                   *)
(***************************************************************************)
EXTENDS Integers, Sequences, FiniteSets, TLC

VARIABLES handle, created_with, schema, conn_return_tuple, connected, spaces,
          req, sent, conn_out, outcome

vars == <<handle, created_with, schema, conn_return_tuple, connected, spaces,
          req, sent, conn_out, outcome>>

----------------------------------------------------------------------------
(* Bounds of the model *)

\* primary keys are 1..MaxKey
MaxKey == 2
\* space numbers are 0..MaxSpaceNo
MaxSpaceNo == 1
\* call() is given 0..MaxArgs positional arguments
MaxArgs == 2

Keys == 1..MaxKey
SpaceNos == 0..MaxSpaceNo
\* second field of a record
Vals == {10, 20}
\* a record is a tuple <<primary key, value>>
Records == Keys \X Vals
SpaceNames == {"users"}

----------------------------------------------------------------------------
(* Python values *)

PyNone == "None"
PyTrue == "True"
PyFalse == "False"
PyBools == {PyTrue, PyFalse}
\* what a caller can pass as return_tuple (None is the parameter's default)
ReturnTupleArgs == {PyNone, PyTrue, PyFalse}

\* truth value of `x` in `A if x else B`
Truthy(x) == x = PyTrue

RECURSIVE BitOr(_, _)
\* a | b on non-negative integers
BitOr(a, b) ==
    IF a = 0 THEN b
    ELSE IF b = 0 THEN a
    ELSE (IF a % 2 = 1 \/ b % 2 = 1 THEN 1 ELSE 0) + 2 * BitOr(a \div 2, b \div 2)

\* bit (a power of two) is set in word w
HasBit(w, bit) == (w \div bit) % 2 = 1

\* **kwargs is a function from the names given to their values
NoKwargs == [k \in {} |-> 0]
\* kwargs.get(name, default)
KwGet(kwargs, name, default) ==
    IF name \in DOMAIN kwargs THEN kwargs[name] ELSE default

\* a 32-bit unsigned number as its two 16-bit halves <<high, low>>
U32(hi, lo) == <<hi, lo>>
\* min(n, u) for a small natural n and a 32-bit u
MinU32(n, u) == IF u[1] > 0 \/ u[2] > n THEN n ELSE u[2]

----------------------------------------------------------------------------
(* Results: what a call returns or raises *)

NoResult == [kind |-> "none"]
Raised(e) == [kind |-> "raise", error |-> e]
\* a Response instance: the number of affected rows and the rows sent back
Response(n, rows) == [kind |-> "return", value |-> [rowcount |-> n, rows |-> rows]]
\* a method that falls off its end returns None
ReturnedNone == [kind |-> "return", value |-> [py |-> PyNone]]

----------------------------------------------------------------------------
(* The collaborators: tarantool.lts.const and the connection *)

\* tarantool.lts.const: the flag bits of an insert request
BOX_RETURN_TUPLE == 1
BOX_ADD == 2
BOX_REPLACE == 4

\* the argument of Space(connection, space_name): a name or a number
NameArg(n) == [kind |-> "name", name |-> n]
NoArg(k) == [kind |-> "no", no |-> k]
\* the names a caller may ask for; the schema defines only SpaceNames
ArgNames == SpaceNames \cup {"nosuch"}
SpaceArgs == {NameArg(n) : n \in ArgNames} \cup {NoArg(k) : k \in SpaceNos}

\* connection.schema.space_no(space_name): a number is its own space number,
\* a name is looked up, an unknown name raises
Schema_space_no(space_name) ==
    IF space_name.kind = "no" THEN [kind |-> "return", value |-> space_name.no]
    ELSE IF space_name.name \in DOMAIN schema
         THEN [kind |-> "return", value |-> schema[space_name.name]]
         ELSE Raised("UnknownSpaceError")

\* the records of space space_no with primary key `key`
WithKey(space_no, key) == {r \in spaces[space_no] : r[1] = key}

\* connection._insert(space_no, values, flags): the answer and the records
\* the server holds afterwards
Connection_insert(space_no, values, flags) ==
    LET old == WithKey(space_no, values[1])
    IN  IF ~connected
        THEN [out |-> Raised("NetworkError"), spaces |-> spaces]
        ELSE IF HasBit(flags, BOX_ADD) /\ old # {}
        THEN [out |-> Raised("DuplicateKey"), spaces |-> spaces]
        ELSE IF HasBit(flags, BOX_REPLACE) /\ old = {}
        THEN [out |-> Raised("NoSuchKey"), spaces |-> spaces]
        ELSE [out |-> Response(1, IF HasBit(flags, BOX_RETURN_TUPLE)
                                  THEN <<values>> ELSE <<>>),
              spaces |-> [spaces EXCEPT ![space_no] = (@ \ old) \cup {values}]]

\* connection.delete(space_no, key, return_tuple)
Connection_delete(space_no, key, return_tuple) ==
    LET old == WithKey(space_no, key)
    IN  IF ~connected
        THEN [out |-> Raised("NetworkError"), spaces |-> spaces]
        ELSE IF old = {}
        THEN [out |-> Response(0, <<>>), spaces |-> spaces]
        ELSE [out |-> Response(1, IF Truthy(return_tuple)
                                  THEN <<CHOOSE r \in old : TRUE>> ELSE <<>>),
              spaces |-> [spaces EXCEPT ![space_no] = @ \ old]]

\* an update operation <<field number, new value>>; only field 1 (the second
\* field) can be assigned
OpLists == { << <<1, 20>> >>, << <<1, 20>>, <<1, 10>> >>, << <<2, 10>> >> }
WellFormed(op_list) == \A i \in 1..Len(op_list) : op_list[i][1] = 1
\* the operations applied in order: the last assignment stands
ApplyOps(rec, op_list) ==
    IF op_list = <<>> THEN rec ELSE <<rec[1], op_list[Len(op_list)][2]>>

\* connection.update(space_no, key, op_list, return_tuple)
Connection_update(space_no, key, op_list, return_tuple) ==
    LET old == WithKey(space_no, key)
        new == ApplyOps(CHOOSE r \in old : TRUE, op_list)
    IN  IF ~connected
        THEN [out |-> Raised("NetworkError"), spaces |-> spaces]
        ELSE IF ~WellFormed(op_list)
        THEN [out |-> Raised("IllegalParams"), spaces |-> spaces]
        ELSE IF old = {}
        THEN [out |-> Response(0, <<>>), spaces |-> spaces]
        ELSE [out |-> Response(1, IF Truthy(return_tuple) THEN <<new>> ELSE <<>>),
              spaces |-> [spaces EXCEPT ![space_no] = (@ \ old) \cup {new}]]

RECURSIVE ByKey(_)
\* the records of a set in primary-key order
ByKey(S) ==
    IF S = {} THEN <<>>
    ELSE LET m == CHOOSE r \in S : \A q \in S : r[1] <= q[1]
         IN  <<m>> \o ByKey(S \ {m})

\* rows[offset : offset + limit]
Page(rows, offset, limit) ==
    LET rest == Len(rows) - offset
    IN  IF rest <= 0 THEN <<>>
        ELSE SubSeq(rows, offset + 1, offset + MinU32(rest, limit))

\* connection.select(space_no, values, index=, offset=, limit=): index 0 is the
\* primary key, any other index is the second field
Connection_select(space_no, values, index, offset, limit) ==
    LET hit == {r \in spaces[space_no] : r[IF index = 0 THEN 1 ELSE 2] = values}
        rows == Page(ByKey(hit), offset, limit)
    IN  IF ~connected
        THEN [out |-> Raised("NetworkError"), spaces |-> spaces]
        ELSE [out |-> Response(Len(rows), rows), spaces |-> spaces]

\* connection.call(func_name, *args, **kwargs): the procedure echoes its
\* arguments; the connection fills in its own return_tuple default
Connection_call(func_name, args, kwargs) ==
    LET return_tuple == KwGet(kwargs, "return_tuple", conn_return_tuple)
    IN  IF ~connected
        THEN [out |-> Raised("NetworkError"), spaces |-> spaces]
        ELSE [out |-> Response(1, IF Truthy(return_tuple) THEN <<args>> ELSE <<>>),
              spaces |-> spaces]

----------------------------------------------------------------------------
(* The Space object *)

\* no Space has been constructed yet
NoHandle == [none |-> TRUE]
\* created_with is a history variable: the argument the Space was constructed
\* with and the connection's return_tuple at that moment; NotCreated before
NotCreated == [none |-> TRUE]
\* the one connection object a Space can be given
TheConnection == "connection"

\* self.space_no looked up again at every use: a variant C4 must reject
self_space_no_late ==
    IF created_with.space_name.kind = "name"
    THEN schema[created_with.space_name.name]
    ELSE handle.space_no

\* self.space_no: the number bound by the constructor
self_space_no == handle.space_no

\* the default taken with `return_tuple or self.connection.return_tuple`: a
\* variant C1 must reject
ReturnTupleOrDefault_falsy(return_tuple) ==
    IF Truthy(return_tuple) THEN return_tuple ELSE conn_return_tuple

\* `if return_tuple is None: return_tuple = self.connection.return_tuple`
\* (the same two lines open replace, store, insert, delete and update)
ReturnTupleOrDefault(return_tuple) ==
    IF return_tuple = PyNone THEN conn_return_tuple ELSE return_tuple

\* replace with insert's flag: a variant C10 must reject
replace_flags_add(return_tuple) ==
    BitOr(IF Truthy(return_tuple) THEN BOX_RETURN_TUPLE ELSE 0, BOX_ADD)

\* (BOX_RETURN_TUPLE if return_tuple else 0) | BOX_REPLACE
replace_flags(return_tuple) ==
    BitOr(IF Truthy(return_tuple) THEN BOX_RETURN_TUPLE ELSE 0, BOX_REPLACE)

\* (BOX_RETURN_TUPLE if return_tuple else 0)
store_flags(return_tuple) ==
    IF Truthy(return_tuple) THEN BOX_RETURN_TUPLE ELSE 0

\* insert without BOX_ADD: a variant C3 must reject
insert_flags_no_add(return_tuple) ==
    IF Truthy(return_tuple) THEN BOX_RETURN_TUPLE ELSE 0

\* (BOX_RETURN_TUPLE if return_tuple else 0) | BOX_ADD
insert_flags(return_tuple) ==
    BitOr(IF Truthy(return_tuple) THEN BOX_RETURN_TUPLE ELSE 0, BOX_ADD)

\* the connection's answer not returned: a variant C8 must reject
Returns_nothing(out) == IF out.kind = "raise" THEN out ELSE ReturnedNone

\* `return self.connection.f(...)`: the caller gets what the connection
\* returned, or the exception it raised
Returns(out) == out

\* the call wrapped in a handler that swallows the exception: a variant C6
\* must reject
Drops_swallowed(out) == ReturnedNone

\* `self.connection.f(...)` as the last statement, without `return`: an
\* exception propagates, anything returned is dropped and the method
\* returns None
Drops(out) == IF out.kind = "raise" THEN out ELSE ReturnedNone

\* kwargs.get("index", 0)
select_index(kwargs) == KwGet(kwargs, "index", 0)
\* kwargs.get("offset", 0)
select_offset(kwargs) == KwGet(kwargs, "offset", 0)
\* limit defaulting to 0: a variant C5 must reject
select_limit_zero(kwargs) == KwGet(kwargs, "limit", U32(0, 0))

\* kwargs.get("limit", 0xffffffff)
select_limit(kwargs) == KwGet(kwargs, "limit", U32(65535, 65535))

\* the parts of the state no method of Space assigns
ConnectionConfig == <<schema, conn_return_tuple, connected>>

\* a name taken for space 0 without asking the schema: a variant C7 must
\* reject
Space_init_space_no_unresolved(space_name) ==
    [kind |-> "return",
     value |-> IF space_name.kind = "no" THEN space_name.no ELSE 0]

\* connection.schema.space_no(space_name), as the constructor calls it
Space_init_space_no(space_name) == Schema_space_no(space_name)

\* Space(connection, space_name)
Space_init(space_name) ==
    LET r == Space_init_space_no(space_name)
    IN  /\ req' = [op |-> "Space", space_name |-> space_name]
        /\ sent' = <<[method |-> "schema.space_no", space_name |-> space_name]>>
        /\ conn_out' = r
        /\ IF r.kind = "raise"
           THEN /\ outcome' = r
                /\ UNCHANGED <<handle, created_with>>
           ELSE /\ handle' = [connection |-> TheConnection, space_no |-> r.value]
                /\ created_with' = [space_name |-> space_name,
                                    return_tuple |-> conn_return_tuple]
                /\ outcome' = [kind |-> "return", value |-> handle']
        /\ UNCHANGED <<ConnectionConfig, spaces>>

\* Space.replace(values, return_tuple=None)
replace(values, return_tuple) ==
    /\ handle # NoHandle
    /\ LET flags == replace_flags(ReturnTupleOrDefault(return_tuple))
           r == Connection_insert(self_space_no, values, flags)
       IN  /\ req' = [op |-> "replace", values |-> values,
                      return_tuple |-> return_tuple]
           /\ sent' = <<[method |-> "_insert", space_no |-> self_space_no,
                         values |-> values, flags |-> flags]>>
           /\ conn_out' = r.out
           /\ spaces' = r.spaces
           /\ outcome' = Drops(r.out)
    /\ UNCHANGED <<handle, created_with, ConnectionConfig>>

\* Space.store(values, return_tuple=None)
store(values, return_tuple) ==
    /\ handle # NoHandle
    /\ LET flags == store_flags(ReturnTupleOrDefault(return_tuple))
           r == Connection_insert(self_space_no, values, flags)
       IN  /\ req' = [op |-> "store", values |-> values,
                      return_tuple |-> return_tuple]
           /\ sent' = <<[method |-> "_insert", space_no |-> self_space_no,
                         values |-> values, flags |-> flags]>>
           /\ conn_out' = r.out
           /\ spaces' = r.spaces
           /\ outcome' = Drops(r.out)
    /\ UNCHANGED <<handle, created_with, ConnectionConfig>>

\* Space.insert(values, return_tuple=None)
insert(values, return_tuple) ==
    /\ handle # NoHandle
    /\ LET flags == insert_flags(ReturnTupleOrDefault(return_tuple))
           r == Connection_insert(self_space_no, values, flags)
       IN  /\ req' = [op |-> "insert", values |-> values,
                      return_tuple |-> return_tuple]
           /\ sent' = <<[method |-> "_insert", space_no |-> self_space_no,
                         values |-> values, flags |-> flags]>>
           /\ conn_out' = r.out
           /\ spaces' = r.spaces
           /\ outcome' = Drops(r.out)
    /\ UNCHANGED <<handle, created_with, ConnectionConfig>>

\* Space.delete(key, return_tuple=None)
delete(key, return_tuple) ==
    /\ handle # NoHandle
    /\ LET rt == ReturnTupleOrDefault(return_tuple)
           r == Connection_delete(self_space_no, key, rt)
       IN  /\ req' = [op |-> "delete", key |-> key, return_tuple |-> return_tuple]
           /\ sent' = <<[method |-> "delete", space_no |-> self_space_no,
                         key |-> key, return_tuple |-> rt]>>
           /\ conn_out' = r.out
           /\ spaces' = r.spaces
           /\ outcome' = Returns(r.out)
    /\ UNCHANGED <<handle, created_with, ConnectionConfig>>

\* Space.update(key, op_list, return_tuple=None)
update(key, op_list, return_tuple) ==
    /\ handle # NoHandle
    /\ LET rt == ReturnTupleOrDefault(return_tuple)
           r == Connection_update(self_space_no, key, op_list, rt)
       IN  /\ req' = [op |-> "update", key |-> key, op_list |-> op_list,
                      return_tuple |-> return_tuple]
           /\ sent' = <<[method |-> "update", space_no |-> self_space_no,
                         key |-> key, op_list |-> op_list, return_tuple |-> rt]>>
           /\ conn_out' = r.out
           /\ spaces' = r.spaces
           /\ outcome' = Returns(r.out)
    /\ UNCHANGED <<handle, created_with, ConnectionConfig>>

\* Space.select(values, **kwargs), called with `extra` positional arguments
\* after values: the signature takes none, so Python raises TypeError before
\* the body runs
select(values, extra, kwargs) ==
    /\ handle # NoHandle
    /\ req' = [op |-> "select", values |-> values, extra |-> extra,
               kwargs |-> kwargs]
    /\ IF extra # <<>>
       THEN /\ sent' = <<>>
            /\ conn_out' = NoResult
            /\ outcome' = Raised("TypeError")
            /\ UNCHANGED spaces
       ELSE LET index == select_index(kwargs)
                offset == select_offset(kwargs)
                limit == select_limit(kwargs)
                r == Connection_select(self_space_no, values, index, offset, limit)
            IN  /\ sent' = <<[method |-> "select", space_no |-> self_space_no,
                              values |-> values, index |-> index,
                              offset |-> offset, limit |-> limit]>>
                /\ conn_out' = r.out
                /\ spaces' = r.spaces
                /\ outcome' = Returns(r.out)
    /\ UNCHANGED <<handle, created_with, ConnectionConfig>>

\* call filling in return_tuple as the other methods do: a variant C9 must
\* reject
call_forward_defaulted(func_name, args, kwargs) ==
    [method |-> "call", func_name |-> func_name, args |-> args,
     kwargs |-> [n \in DOMAIN kwargs \cup {"return_tuple"} |->
                    IF n \in DOMAIN kwargs THEN kwargs[n] ELSE conn_return_tuple]]

\* what `self.connection.call(func_name, *args, **kwargs)` hands over
call_forward(func_name, args, kwargs) ==
    [method |-> "call", func_name |-> func_name, args |-> args, kwargs |-> kwargs]

\* Space.call(func_name, *args, **kwargs)
call(func_name, args, kwargs) ==
    /\ handle # NoHandle
    /\ LET c == call_forward(func_name, args, kwargs)
           r == Connection_call(c.func_name, c.args, c.kwargs)
       IN  /\ req' = [op |-> "call", func_name |-> func_name, args |-> args,
                      kwargs |-> kwargs]
           /\ sent' = <<c>>
           /\ conn_out' = r.out
           /\ spaces' = r.spaces
           /\ outcome' = Returns(r.out)
    /\ UNCHANGED <<handle, created_with, ConnectionConfig>>

----------------------------------------------------------------------------
(* What the rest of the program does to the connection *)

\* connection.return_tuple = value
set_return_tuple(value) ==
    /\ conn_return_tuple' = value
    /\ req' = [op |-> "connection.return_tuple", value |-> value]
    /\ sent' = <<>>
    /\ conn_out' = NoResult
    /\ outcome' = NoResult
    /\ UNCHANGED <<handle, created_with, schema, connected, spaces>>

\* the schema is redefined: space_name now names space_no
set_schema(space_name, space_no) ==
    /\ schema' = [schema EXCEPT ![space_name] = space_no]
    /\ req' = [op |-> "connection.schema", space_name |-> space_name,
               space_no |-> space_no]
    /\ sent' = <<>>
    /\ conn_out' = NoResult
    /\ outcome' = NoResult
    /\ UNCHANGED <<handle, created_with, conn_return_tuple, connected, spaces>>

\* the connection is lost (up = FALSE) or established again (up = TRUE)
set_connected(up) ==
    /\ connected' = up
    /\ req' = [op |-> "connection.connected", value |-> up]
    /\ sent' = <<>>
    /\ conn_out' = NoResult
    /\ outcome' = NoResult
    /\ UNCHANGED <<handle, created_with, schema, conn_return_tuple, spaces>>

----------------------------------------------------------------------------
(* Specifications *)

Init ==
    /\ handle = NoHandle
    /\ created_with = NotCreated
    /\ schema = [n \in SpaceNames |-> 0]
    /\ conn_return_tuple \in PyBools
    /\ connected = TRUE
    /\ spaces = [n \in SpaceNos |-> {}]
    /\ req = [op |-> "none"]
    /\ sent = <<>>
    /\ conn_out = NoResult
    /\ outcome = NoResult

\* the positional arguments of call(): <<1, ..., n>> for n in 0..MaxArgs
CallArgs == {[i \in 1..n |-> i] : n \in 0..MaxArgs}
\* the keyword arguments of call(): return_tuple given or not
CallKwargs == {NoKwargs} \cup {[return_tuple |-> v] : v \in PyBools}
\* the keyword arguments of select(): each of index, offset, limit given or not
SelectNames == {"index", "offset", "limit"}
SelectKwargs ==
    {[n \in given |-> IF n = "limit" THEN U32(0, 1) ELSE 1] :
        given \in SUBSET SelectNames}
\* select() called properly, or with index (and offset, limit) put positionally
SelectExtras == {<<>>, <<1>>, <<1, 1, U32(0, 1)>>}

\* one record and one key, for the runs that are about what is forwarded
OneRecord == {<<1, 10>>}
OneKey == {1}

\* every operation with every form of its options, over one record
Next ==
    \/ \E a \in SpaceArgs : Space_init(a)
    \/ \E v \in OneRecord, rt \in ReturnTupleArgs : replace(v, rt)
    \/ \E v \in OneRecord, rt \in ReturnTupleArgs : store(v, rt)
    \/ \E v \in OneRecord, rt \in ReturnTupleArgs : insert(v, rt)
    \/ \E k \in OneKey, rt \in ReturnTupleArgs : delete(k, rt)
    \/ \E k \in OneKey, ops \in OpLists, rt \in ReturnTupleArgs : update(k, ops, rt)
    \/ \E v \in OneKey, x \in SelectExtras, kw \in SelectKwargs : select(v, x, kw)
    \/ \E a \in CallArgs, kw \in CallKwargs : call("box.time", a, kw)
    \/ \E v \in PyBools : set_return_tuple(v)
    \/ \E n \in SpaceNames, k \in SpaceNos : set_schema(n, k)
    \/ \E up \in BOOLEAN : set_connected(up)

Spec == Init /\ [][Next]_vars

\* a space bound by name and a space bound by number
TwoSpaces == {NameArg("users"), NoArg(1)}

\* the operations that write records, over every record and key of two
\* spaces, with the connection up and its configuration left alone
NextStore ==
    \/ \E a \in TwoSpaces : Space_init(a)
    \/ \E v \in Records : replace(v, PyNone)
    \/ \E v \in Records : store(v, PyNone)
    \/ \E v \in Records : insert(v, PyNone)
    \/ \E k \in Keys : delete(k, PyNone)

SpecStore == Init /\ [][NextStore]_vars

----------------------------------------------------------------------------
(* Properties *)

InsertOps == {"replace", "store", "insert"}
KeyOps == {"delete", "update"}
SpaceOps == InsertOps \cup KeyOps \cup {"select", "call"}
\* the invocation was bound to the method's parameters: its body ran
BodyRan == req.op \in SpaceOps \cup {"Space"} /\ ~(req.op = "select" /\ req.extra # <<>>)

\* C1: for replace, store, insert, delete and update the return-tuple value
\* that reaches the connection is the caller's flag when one was given (an
\* explicit False included) and the connection's return_tuple, as it is when
\* the call is made, when the flag was left out.
C1_ReturnTupleForwarded ==
    /\ (req.op \in InsertOps /\ req.return_tuple \in PyBools)
        => (HasBit(sent[1].flags, BOX_RETURN_TUPLE) <=> req.return_tuple = PyTrue)
    /\ (req.op \in InsertOps /\ req.return_tuple = PyNone)
        => (HasBit(sent[1].flags, BOX_RETURN_TUPLE) <=> conn_return_tuple = PyTrue)
    /\ (req.op \in KeyOps /\ req.return_tuple \in PyBools)
        => sent[1].return_tuple = req.return_tuple
    /\ (req.op \in KeyOps /\ req.return_tuple = PyNone)
        => sent[1].return_tuple = conn_return_tuple

\* a write made without the flag after the connection's default was switched
\* on, on a Space constructed while it was off
C1_Witness ==
    /\ req.op \in InsertOps
    /\ req.return_tuple = PyNone
    /\ created_with.return_tuple = PyFalse
    /\ conn_return_tuple = PyTrue
    /\ HasBit(sent[1].flags, BOX_RETURN_TUPLE)

\* C2: replace, store and insert return to the caller the Response the
\* connection's insert call produced, as delete, update and select do.
C2_WritesReturnResponse ==
    req.op \in InsertOps => outcome = conn_out

\* C3: with the connection up, for any key: an insert that follows a
\* successful insert of the same key raises DuplicateKey and leaves the first
\* record stored; an insert or a store of a key the space does not hold
\* succeeds, and a store that follows a store of the same key succeeds and
\* leaves the second record stored; a replace of a key the space does not
\* hold raises NoSuchKey and stores nothing.
C3_InsertStoreReplace ==
    [][connected =>
        LET held(key) == WithKey(handle.space_no, key)
            held_after(key) == {r \in spaces'[handle.space_no] : r[1] = key}
        IN  /\ (/\ req.op = "insert" /\ outcome.kind = "return"
                /\ req'.op = "insert" /\ req'.values[1] = req.values[1])
                => /\ outcome' = Raised("DuplicateKey")
                   /\ spaces' = spaces
                   /\ held_after(req.values[1]) = {req.values}
            /\ (req'.op \in {"insert", "store"} /\ held(req'.values[1]) = {})
                => /\ outcome'.kind = "return"
                   /\ held_after(req'.values[1]) = {req'.values}
            /\ (/\ req.op = "store" /\ outcome.kind = "return"
                /\ req'.op = "store" /\ req'.values[1] = req.values[1])
                => /\ outcome'.kind = "return"
                   /\ held_after(req'.values[1]) = {req'.values}
            /\ (req'.op = "replace" /\ held(req'.values[1]) = {})
                => /\ outcome' = Raised("NoSuchKey")
                   /\ spaces' = spaces
    ]_vars

\* a second insert of a key was refused and the record of the first, which
\* differs from the refused one, is still there
C3_Witness ==
    /\ req.op = "insert"
    /\ outcome = Raised("DuplicateKey")
    /\ \E r \in spaces[handle.space_no] : r[1] = req.values[1] /\ r # req.values

\* C4: the space number is resolved once, by the constructor; no operation,
\* successful or failing, and no change of the connection's schema changes
\* the Space's space number or connection; every delegated replace, store,
\* insert, delete, update and select carries the number bound at construction.
C4_SpaceNoFixed ==
    [][/\ handle' # handle => (req'.op = "Space" /\ outcome'.kind = "return")
       /\ req'.op = "Space" => Len(sent') = 1
       /\ req'.op \in SpaceOps =>
            \A i \in 1..Len(sent') : sent'[i].method # "schema.space_no"
       /\ (req'.op \in SpaceOps \ {"call"} /\ sent' # <<>>)
            => /\ Len(sent') = 1
               /\ sent'[1].space_no = handle.space_no
               /\ handle'.space_no = handle.space_no
               /\ handle'.connection = handle.connection
    ]_vars

\* an operation delegated by a Space made by name, after the schema gave the
\* name to another space
C4_Witness ==
    /\ req.op \in SpaceOps \ {"call"}
    /\ sent # <<>>
    /\ created_with.space_name.kind = "name"
    /\ schema[created_with.space_name.name] # handle.space_no
    /\ sent[1].space_no = handle.space_no

\* C5: select rejects index, offset and limit given positionally; given no
\* option the connection's select receives index 0, offset 0 and limit
\* 0xffffffff; each option given by name is forwarded as given and each one
\* left out takes its default, whatever the others are.
C5_SelectOptions ==
    req.op = "select" =>
        IF req.extra # <<>>
        THEN outcome = Raised("TypeError") /\ sent = <<>>
        ELSE /\ Len(sent) = 1
             /\ sent[1].method = "select"
             /\ sent[1].values = req.values
             /\ sent[1].index =
                    IF "index" \in DOMAIN req.kwargs THEN req.kwargs.index ELSE 0
             /\ sent[1].offset =
                    IF "offset" \in DOMAIN req.kwargs THEN req.kwargs.offset ELSE 0
             /\ sent[1].limit =
                    IF "limit" \in DOMAIN req.kwargs THEN req.kwargs.limit
                    ELSE U32(65535, 65535)

\* select given offset alone: offset goes as given, index and limit by default
C5_Witness ==
    /\ req.op = "select"
    /\ req.extra = <<>>
    /\ DOMAIN req.kwargs = {"offset"}
    /\ sent[1].offset = 1
    /\ sent[1].index = 0
    /\ sent[1].limit = U32(65535, 65535)

\* C6: in every operation whose body runs, the constructor included, exactly
\* one call reaches the connection; what the connection raises is what the
\* caller gets, the caller gets no failure the connection did not raise, and
\* a failure leaves the Space as it was.
C6_FailuresPassThrough ==
    [][BodyRan' =>
        /\ Len(sent') = 1
        /\ conn_out'.kind = "raise" => (outcome' = conn_out' /\ handle' = handle)
        /\ outcome'.kind = "raise" => conn_out' = outcome'
    ]_vars

\* a store on a lost connection: the caller gets the connection's error
C6_Witness ==
    /\ req.op = "store"
    /\ conn_out = Raised("NetworkError")
    /\ outcome = Raised("NetworkError")
    /\ Len(sent) = 1

\* C7: constructing a Space with a name or number the schema resolves binds
\* the space number the schema's lookup gives for that argument; with one it
\* does not resolve, the lookup's UnknownSpaceError reaches the caller and no
\* Space comes into being.
C7_SpaceNoResolved ==
    [][req'.op = "Space" =>
        LET r == Schema_space_no(req'.space_name)
        IN  IF r.kind = "return"
            THEN /\ handle' # NoHandle
                 /\ handle'.space_no = r.value
                 /\ outcome' = [kind |-> "return", value |-> handle']
            ELSE /\ outcome' = Raised("UnknownSpaceError")
                 /\ handle' = handle
    ]_vars

\* a Space made by name is bound to the space the schema gives the name
C7_Witness ==
    /\ req.op = "Space"
    /\ req.space_name.kind = "name"
    /\ outcome.kind = "return"
    /\ handle.space_no = schema[req.space_name.name]
    /\ handle.space_no # 0

\* C8: with the connection up, delete returns the connection's result; on a
\* key the space does not hold that is the empty result, not an error, and
\* no record changes; on a key it holds, that record is removed and no other.
C8_Delete ==
    [][(connected /\ req'.op = "delete") =>
        LET old == WithKey(handle.space_no, req'.key)
        IN  /\ outcome' = conn_out'
            /\ old = {} => (outcome' = Response(0, <<>>) /\ spaces' = spaces)
            /\ old # {} =>
                /\ outcome'.kind = "return"
                /\ spaces' = [spaces EXCEPT ![handle.space_no] = @ \ old]
                /\ Cardinality(old) = 1
    ]_vars

\* a delete of a key the space does not hold, while it holds another
C8_Witness ==
    /\ req.op = "delete"
    /\ outcome = Response(0, <<>>)
    /\ spaces[handle.space_no] # {}

\* C9 as stated: call forwards name, arguments and options and returns the
\* connection's result, and puts the connection's return_tuple in the options
\* when the caller left return_tuple out.
C9_CallSubstitutesDefault ==
    req.op = "call" =>
        /\ Len(sent) = 1
        /\ sent[1].func_name = req.func_name
        /\ sent[1].args = req.args
        /\ outcome = conn_out
        /\ sent[1].kwargs =
                IF "return_tuple" \in DOMAIN req.kwargs THEN req.kwargs
                ELSE [return_tuple |-> conn_return_tuple]

\* C9 amended: call forwards name, arguments and options unchanged and
\* returns the connection's result; it fills in nothing: when the caller
\* left return_tuple out, the connection receives no return_tuple.
C9_CallForwardsUnchanged ==
    req.op = "call" =>
        /\ Len(sent) = 1
        /\ sent[1].method = "call"
        /\ sent[1].func_name = req.func_name
        /\ sent[1].args = req.args
        /\ sent[1].kwargs = req.kwargs
        /\ outcome = conn_out

\* a call with two arguments and no return_tuple, answered by the connection
C9_Witness ==
    /\ req.op = "call"
    /\ Len(req.args) = 2
    /\ "return_tuple" \notin DOMAIN req.kwargs
    /\ "return_tuple" \notin DOMAIN sent[1].kwargs
    /\ outcome.kind = "return"

\* C10: the flags given to the connection's insert have the return-tuple bit
\* exactly when the effective return_tuple is true; REPLACE without ADD for
\* replace, ADD without REPLACE for insert, neither for store; no other bit.
C10_InsertFlags ==
    req.op \in InsertOps =>
        LET w == sent[1].flags
            effective == IF req.return_tuple = PyNone THEN conn_return_tuple
                         ELSE req.return_tuple
            bit(b) == IF HasBit(w, b) THEN b ELSE 0
        IN  /\ HasBit(w, BOX_RETURN_TUPLE) <=> effective = PyTrue
            /\ req.op = "replace" => (HasBit(w, BOX_REPLACE) /\ ~HasBit(w, BOX_ADD))
            /\ req.op = "insert" => (HasBit(w, BOX_ADD) /\ ~HasBit(w, BOX_REPLACE))
            /\ req.op = "store" => (~HasBit(w, BOX_ADD) /\ ~HasBit(w, BOX_REPLACE))
            /\ ~(HasBit(w, BOX_ADD) /\ HasBit(w, BOX_REPLACE))
            /\ w = bit(BOX_RETURN_TUPLE) + bit(BOX_ADD) + bit(BOX_REPLACE)

\* a replace that asks for the tuple back: RETURN_TUPLE | REPLACE
C10_Witness ==
    /\ req.op = "replace"
    /\ req.return_tuple = PyTrue
    /\ sent[1].flags = BOX_RETURN_TUPLE + BOX_REPLACE

====
